---- MODULE Spec2Model ----
(***************************************************************************)
(* Activation-confidence annotation of a multitrack                       *)
(* (medleydb/annotate/activation_conf.py).                                 *)
(*                                                                         *)
(* One track (its stems and their audio) is fixed by Init; main is invoked *)
(* on it any number of times.  An invocation walks through the statements  *)
(* of main and create_activation_annotation, one action per statement      *)
(* group, so that the value of every local is visible between them.       *)
(*                                                                         *)
(* Numbers.  The code works on floats; the model uses exact integers:      *)
(*   - a sample is an integer count of 1/SampleScale;                      *)
(*   - its square root is an integer count of 1/RootScale;                 *)
(*   - a window coefficient is an integer count of 1/WinScale (the Hann    *)
(*     values rounded to three decimals);                                  *)
(*   - an envelope value is the sum over one frame of root * coefficient,  *)
(*     i.e. the numerator of the mean, whose denominator EnvDen(win_len)   *)
(*     is the same for every stem and frame of a run;                      *)
(*   - a quotient is the pair <<numerator, denominator>>; <<0, 0>> is the  *)
(*     NaN that 0.0 / 0.0 gives in numpy.                                  *)
(* The Butterworth filter and the logistic map have no exact integer form; *)
(* their results are kept as terms naming the operation and its operand.   *)
(***************************************************************************)
EXTENDS Integers, Sequences, FiniteSets, TLC

\* ------------------------------------------------------------------ bounds
MaxWinLen == 8
MaxWaveLen == 16

\* ---------------------------------------------------------- number formats
SampleScale == 10000
RootScale == 100
WinScale == 1000

\* ------------------------------------------------------- program constants
SampleRate == 44100
ThresholdDen == 100
FilterOrder == 2
Theta == <<15, 100>>
LpfCutoff == <<75, 1000>>
None == "None"

\* ----------------------------------------------------------------- helpers
Range(s) == {s[k] : k \in DOMAIN s}

Zeros(n) == [k \in 1..n |-> 0]

Abs(x) == IF x < 0 THEN 0 - x ELSE x

MaxOf(a, b) == IF a > b THEN a ELSE b

RECURSIVE SumSeq(_)
SumSeq(s) == IF s = <<>> THEN 0 ELSE Head(s) + SumSeq(Tail(s))

\* np.max over a non-empty vector
MaxSeq(s) == CHOOSE m \in Range(s) : \A x \in Range(s) : x <= m

\* np.ceil(a / b) under true division, a >= 0, b > 0
CeilDiv(a, b) == (a + b - 1) \div b

\* ------------------------------------------------------------ the inputs
StemIds == {2, 10}

\* mtrack.stems: the stem indices in the order the mapping yields them
StemOrders ==
    {<<a>> : a \in StemIds} \cup
    {<<a, b>> : <<a, b>> \in {p \in StemIds \X StemIds : p[1] # p[2]}}

\* a waveform of n samples: the first half at level a, the rest at level b
Step(n, a, b) == [k \in 1..n |-> IF k <= n \div 2 THEN a ELSE b]

HeadLevels == {0, SampleScale}
TailLevels == {0 - SampleScale, 0, 1, SampleScale \div 4, SampleScale}
WaveLens == {MaxWaveLen \div 2, MaxWaveLen}

ScenarioA == Step(16, 0, SampleScale)

Waves ==
    {Step(n, a, b) : n \in WaveLens, a \in HeadLevels, b \in TailLevels}
        \cup {ScenarioA}

\* --------------------------------------------------------- track_activation
\* scipy.signal.windows.hann(M), three decimals, for M = 3 .. 13
HannTable ==
    << <<0, 1000, 0>>,
       <<0, 750, 750, 0>>,
       <<0, 500, 1000, 500, 0>>,
       <<0, 345, 905, 905, 345, 0>>,
       <<0, 250, 750, 1000, 750, 250, 0>>,
       <<0, 188, 611, 950, 950, 611, 188, 0>>,
       <<0, 146, 500, 854, 1000, 854, 500, 146, 0>>,
       <<0, 117, 413, 750, 970, 970, 750, 413, 117, 0>>,
       <<0, 95, 345, 655, 905, 1000, 905, 655, 345, 95, 0>>,
       <<0, 79, 292, 571, 827, 980, 980, 827, 571, 292, 79, 0>>,
       <<0, 67, 250, 500, 750, 933, 1000, 933, 750, 500, 250, 67, 0>> >>

Hann(M) == HannTable[M - 2]

\* win = hann(win_len + 2)[1:-1]
Window(w) == SubSeq(Hann(w + 2), 2, w + 1)

\* hop_len = win_len // 2
HopLen(w) == w \div 2

\* np.lib.pad(wave, (win_len - hop_len, 0), constant 0)
PrePad(wave, w) == Zeros(w - HopLen(w)) \o wave

PostPadSizeFloor(n, w) == w * (n \div w)

\* int(win_len * np.ceil(len(wave) / win_len))
PostPadSize(n, w) == w * CeilDiv(n, w)

\* librosa.util.fix_length(wave, size)
FixLength(wave, size) ==
    IF Len(wave) > size
        THEN SubSeq(wave, 1, size)
        ELSE wave \o Zeros(size - Len(wave))

\* librosa.util.frame rejects a hop below 1 and a signal shorter than a frame
FrameRejects(n, frame_length, hop_length) ==
    hop_length < 1 \/ n < frame_length

\* librosa.util.frame: the frames in time order, each frame_length long
Frame(wave, frame_length, hop_length) ==
    [t \in 1..(1 + (Len(wave) - frame_length) \div hop_length) |->
        SubSeq(wave, (t - 1) * hop_length + 1, (t - 1) * hop_length + frame_length)]

\* half-wave rectification: (x + |x|) / 2
hwr(x) == (x + Abs(x)) \div 2

\* the largest r in lo..hi with r * r <= x
RECURSIVE SqrtIn(_, _, _)
SqrtIn(x, lo, hi) ==
    IF lo = hi THEN lo
    ELSE LET mid == (lo + hi + 1) \div 2
         IN  IF mid * mid <= x THEN SqrtIn(x, mid, hi) ELSE SqrtIn(x, lo, mid - 1)

\* x ** 0.5 of a rectified sample, in 1/RootScale: sqrt(x / SampleScale) =
\* sqrt(x) / RootScale, exact for the levels of the model, which are squares
Sqrt(x) == SqrtIn(x, 0, RootScale)

Padded(wave, w) ==
    LET pre == PrePad(wave, w) IN FixLength(pre, PostPadSize(Len(pre), w))

TrackActivationFails(wave, w) ==
    FrameRejects(Len(Padded(wave, w)), w, HopLen(w))

\* np.mean(wavmat.T * win, axis=1), numerators over EnvDen(w)
track_activation(wave, w, win) ==
    LET wavmat == Frame(Padded(wave, w), w, HopLen(w))
    IN  [t \in DOMAIN wavmat |->
            SumSeq([k \in 1..w |-> Sqrt(hwr(wavmat[t][k])) * win[k]])]

EnvDen(w) == w * RootScale * WinScale

\* ---------------------------------------------------------------- state
VARIABLES
    stems,        \* mtrack.stems, as the sequence of indices items() yields
    audio,        \* stem index -> waveform librosa.load returns
    fs,           \* the file at mtrack.activation_conf_fpath
    pc,           \* position of the running invocation
    caller,       \* who called: main, or a direct caller of the function
    write_output, \* args.write_output
    existed,      \* what os.path.exists answered
    win_len,      \* win_len of the running call
    binarize,     \* binarize of the running call
    H,            \* list of envelopes (lines 16-28)
    index_list,   \* line 17, 25
    E0,           \* line 31
    Hn,           \* H after line 33, then after line 34
    Hc,           \* H after line 38, then after line 41-48
    activations,  \* what create_activation_annotation returned
    ret,          \* what main returned
    err           \* the exception that ended the invocation, by the error kind
                  \* it stands for: "InvalidConfig" is librosa's ParameterError
                  \* on a hop of 0 (line 79), "FrameCountMismatch" the numpy
                  \* error on rows of unequal length (lines 28-34),
                  \* "InsufficientLength" the ValueError of filtfilt (line 38)

vars == <<stems, audio, fs, pc, caller, write_output, existed, win_len, binarize,
          H, index_list, E0, Hn, Hc, activations, ret, err>>

track == <<stems, audio>>
call == <<caller, write_output, existed, win_len, binarize>>
locals == <<H, index_list, E0, Hn, Hc>>

Absent == [exists |-> FALSE, header |-> "", data |-> <<>>]
Earlier == [exists |-> TRUE, header |-> "time,S01", data |-> <<>>]

Init ==
    /\ stems \in StemOrders
    /\ audio \in [Range(stems) -> Waves]
    /\ fs \in {Absent, Earlier}
    /\ pc = "idle"
    /\ caller = "none"
    /\ write_output = FALSE
    /\ existed = FALSE
    /\ win_len = 0
    /\ binarize = FALSE
    /\ H = <<>>
    /\ index_list = <<>>
    /\ E0 = <<>>
    /\ Hn = <<>>
    /\ Hc = <<>>
    /\ activations = <<>>
    /\ ret = None
    /\ err = None

\* --------------------------------------------------------------- main
\* main passes no win_len, so the default of line 13 applies: 4096, an even
\* window far longer than the waveforms of the model; the model lets it be
\* any even window within the bound
DefaultWinLens == {w \in 1..MaxWinLen : w % 2 = 0}

MainAlwaysRuns ==
    /\ pc = "idle"
    /\ caller' = "main"
    /\ \E wo \in BOOLEAN : write_output' = wo
    /\ existed' = fs.exists
    /\ pc' = "extract"
    /\ \E w \in DefaultWinLens : win_len' = w
    /\ binarize' = FALSE
    /\ UNCHANGED <<track, fs, locals, activations, ret, err>>

\* lines 111-116: skip when the artifact exists, else start the pipeline
Main ==
    /\ pc = "idle"
    /\ caller' = "main"
    /\ \E wo \in BOOLEAN : write_output' = wo
    /\ existed' = fs.exists
    /\ IF fs.exists
          THEN /\ pc' = "returned"
               /\ ret' = "True"
               /\ UNCHANGED win_len
          ELSE /\ pc' = "extract"
               /\ \E w \in DefaultWinLens : win_len' = w
               /\ UNCHANGED ret
    /\ binarize' = FALSE
    /\ UNCHANGED <<track, fs, locals, activations, err>>

\* lines 13-14: create_activation_annotation called on its own, with the
\* win_len and binarize its caller chooses
Call ==
    /\ pc = "idle"
    /\ caller' = "api"
    /\ pc' = "extract"
    /\ \E w \in 1..MaxWinLen : win_len' = w
    /\ \E b \in BOOLEAN : binarize' = b
    /\ UNCHANGED <<track, fs, write_output, existed, locals, activations, ret, err>>

\* ------------------------------------------- create_activation_annotation
\* a stem index put where it keeps the list ascending
RECURSIVE InsertSorted(_, _)
InsertSorted(il, stem_idx) ==
    IF il = <<>> \/ stem_idx <= Head(il)
        THEN <<stem_idx>> \o il
        ELSE <<Head(il)>> \o InsertSorted(Tail(il), stem_idx)

\* line 25: index_list.append(stem_idx)
AppendIndex(il, stem_idx) == Append(il, stem_idx)

\* lines 22-25, one iteration of the loop over mtrack.stems.items()
ExtractStem ==
    /\ pc = "extract"
    /\ LET stem_idx == stems[Len(H) + 1]
           wave == audio[stem_idx]
       IN  IF TrackActivationFails(wave, win_len)
              THEN /\ pc' = "error"
                   /\ err' = "InvalidConfig"
                   /\ UNCHANGED <<H, index_list>>
              ELSE /\ H' = Append(H, track_activation(wave, win_len, Window(win_len)))
                   /\ index_list' = AppendIndex(index_list, stem_idx)
                   /\ pc' = IF Len(H) + 1 = Len(stems) THEN "stack" ELSE "extract"
                   /\ UNCHANGED err
    /\ UNCHANGED <<track, fs, call, E0, Hn, Hc, activations, ret>>

Ragged(Hl) == \E a, b \in DOMAIN Hl : Len(Hl[a]) # Len(Hl[b])

MinLen(Hl) == CHOOSE n \in {Len(Hl[a]) : a \in DOMAIN Hl} :
                  \A a \in DOMAIN Hl : n <= Len(Hl[a])

StackRowsTruncating(Hl) == [s \in DOMAIN Hl |-> SubSeq(Hl[s], 1, MinLen(Hl))]

\* line 28-31: np.array(H) and the sum over it; rows of unequal length make
\* no matrix (numpy raises), shown as the empty result
StackRows(Hl) == IF Ragged(Hl) THEN <<>> ELSE Hl

\* line 31: E0 = np.sum(H, axis=0)
ColumnSums(A) == [f \in DOMAIN A[1] |-> SumSeq([s \in DOMAIN A |-> A[s][f]])]

Stack ==
    /\ pc = "stack"
    /\ LET A == StackRows(H)
       IN  IF A = <<>>
              THEN /\ pc' = "error"
                   /\ err' = "FrameCountMismatch"
                   /\ UNCHANGED <<H, E0>>
              ELSE /\ H' = A
                   /\ E0' = ColumnSums(A)
                   /\ pc' = "scale"
                   /\ UNCHANGED err
    /\ UNCHANGED <<track, fs, call, index_list, Hn, Hc, activations, ret>>

\* float division: 0 / 0 is NaN, shown as <<0, 0>>
Quot(n, d) == <<n, d>>

\* line 33: H = len(mtrack.stems) * H / np.max(E0)
Scaled(A, n, e0) ==
    [s \in DOMAIN A |-> [f \in DOMAIN A[s] |-> Quot(n * A[s][f], MaxSeq(e0))]]

Scale ==
    /\ pc = "scale"
    /\ Hn' = Scaled(H, Len(stems), E0)
    /\ pc' = "gate"
    /\ UNCHANGED <<track, fs, call, H, index_list, E0, Hc, activations, ret, err>>

LowEnergyOnlySilence(e, w) == e = 0

\* line 34: E0 < 0.01, on the sum of the envelopes as line 31 left it
LowEnergy(e, w) == e * ThresholdDen < EnvDen(w)

\* line 34: H[:, E0 < 0.01] = 0.0
Gated(A, e0, w) ==
    [s \in DOMAIN A |->
        [f \in DOMAIN A[s] |-> IF LowEnergy(e0[f], w) THEN Quot(0, 1) ELSE A[s][f]]]

Gate ==
    /\ pc = "gate"
    /\ Hn' = Gated(Hn, E0, win_len)
    /\ pc' = "filter"
    /\ UNCHANGED <<track, fs, call, H, index_list, E0, Hc, activations, ret, err>>

\* scipy.signal.filtfilt pads each end by 3 * max(len(a), len(b)) samples;
\* butter(2, ...) returns FilterOrder + 1 coefficients in each of b and a
PadLen == 3 * MaxOf(FilterOrder + 1, FilterOrder + 1)

FiltfiltRejectsBelow(n) == n < PadLen

\* filtfilt raises unless the axis is longer than the padding
FiltfiltRejects(n) == n <= PadLen

\* a vector computed by an operation from an operand; n is its length
Vec(op, x, n) == [op |-> op, x |-> x, n |-> n]

\* lines 37-38: butter(2, lpf_cutoff, 'low'), filtfilt(b, a, H, axis=1)
Filter ==
    /\ pc = "filter"
    /\ IF FiltfiltRejects(Len(Hn[1]))
          THEN /\ pc' = "error"
               /\ err' = "InsufficientLength"
               /\ UNCHANGED Hc
          ELSE /\ Hc' = [s \in DOMAIN Hn |->
                            Vec(<<"filtfilt", FilterOrder, LpfCutoff>>, Hn[s], Len(Hn[s]))]
               /\ pc' = "logistic"
               /\ UNCHANGED err
    /\ UNCHANGED <<track, fs, call, H, index_list, E0, Hn, activations, ret>>

\* lines 41-48: 1 - 1 / (1 + exp(20 * (H - theta))), then H > 0.5 if binarize
Confidence(v, theta, bin) ==
    IF bin
        THEN Vec(<<"binarize">>, Vec(<<"logistic", theta>>, v, v.n), v.n)
        ELSE Vec(<<"logistic", theta>>, v, v.n)

Logistic ==
    /\ pc = "logistic"
    /\ Hc' = [s \in DOMAIN Hc |-> Confidence(Hc[s], Theta, binarize)]
    /\ pc' = "time"
    /\ UNCHANGED <<track, fs, call, H, index_list, E0, Hn, activations, ret, err>>

\* librosa.core.frames_to_time(np.arange(n), sr, hop_length)
FramesToTime(n, sr, hop_length) ==
    Vec(<<"frames_to_time">>, [f \in 1..n |-> Quot((f - 1) * hop_length, sr)], n)

\* np.vstack((time, H_out)).T: the stacked rows, read as columns
VStackT(time, rows) == [T |-> TRUE, base |-> <<time>> \o rows]

Shape(M) == <<M.base[1].n, Len(M.base)>>

Column(M, c) == M.base[c + 1]

\* lines 51-57
TimeStack ==
    /\ pc = "time"
    /\ LET time == FramesToTime(Hc[1].n, SampleRate, HopLen(win_len))
       IN  activations' = <<VStackT(time, Hc), index_list>>
    /\ pc' = IF caller = "main" THEN "write" ELSE "returned"
    /\ UNCHANGED <<track, fs, call, locals, ret, err>>

\* ------------------------------------------------ write_activations_to_csv
Digit == <<"0", "1", "2", "3", "4", "5", "6", "7", "8", "9">>

RECURSIVE DecStr(_)
DecStr(i) ==
    IF i < 10 THEN Digit[i + 1] ELSE DecStr(i \div 10) \o Digit[(i % 10) + 1]

Fmt02dUnpadded(i) == DecStr(i)

\* "%02d" % i, i >= 0
Fmt02d(i) == IF i < 10 THEN "0" \o DecStr(i) ELSE DecStr(i)

RECURSIVE Join(_)
Join(ss) ==
    IF ss = <<>> THEN ""
    ELSE IF Len(ss) = 1 THEN Head(ss)
    ELSE Head(ss) \o "," \o Join(Tail(ss))

\* lines 98-104: 'time,{}'.format(",".join(["S%02d" % i for i in index_list]))
Header(il) == "time," \o Join([k \in DOMAIN il |-> "S" \o Fmt02d(il[k])])

\* lines 101-108: np.savetxt with fmt='%.4f'
Saved(acts, il) ==
    [exists |-> TRUE, header |-> Header(il), data |-> <<[fmt |-> "%.4f", m |-> acts]>>]

\* lines 117-118
Write ==
    /\ pc = "write"
    /\ fs' = IF write_output THEN Saved(activations[1], activations[2]) ELSE fs
    /\ pc' = "returned"
    /\ ret' = None
    /\ UNCHANGED <<track, call, locals, activations, err>>

\* the invocation is over (returned, or ended by the exception)
Exit ==
    /\ pc \in {"returned", "error"}
    /\ pc' = "idle"
    /\ caller' = "none"
    /\ write_output' = FALSE
    /\ existed' = FALSE
    /\ win_len' = 0
    /\ binarize' = FALSE
    /\ H' = <<>>
    /\ index_list' = <<>>
    /\ E0' = <<>>
    /\ Hn' = <<>>
    /\ Hc' = <<>>
    /\ activations' = <<>>
    /\ ret' = None
    /\ err' = None
    /\ UNCHANGED <<track, fs>>

Next ==
    \/ Main
    \/ Call
    \/ ExtractStem
    \/ Stack
    \/ Scale
    \/ Gate
    \/ Filter
    \/ Logistic
    \/ TimeStack
    \/ Write
    \/ Exit

Spec == Init /\ [][Next]_vars

\* ------------------------------------------------------------------------
\* The properties
\* ------------------------------------------------------------------------
Returned == activations # <<>>

AfterGate == pc \in {"filter", "logistic", "time", "write", "returned"} /\ Hn # <<>>

\* the envelope of one stem of the track, from its audio
EnvOf(id) == track_activation(audio[id], win_len, Window(win_len))

\* C1: the returned index list (hence the stem columns) is in strictly
\* ascending stem-index order, whatever order the stem mapping yields.
C1_AscendingOrder ==
    Returned =>
        \A k \in 1..(Len(activations[2]) - 1) :
            activations[2][k] < activations[2][k + 1]

\* C2: the returned matrix has F rows and N + 1 columns, and its column 0 is
\* strictly increasing with row f equal to f * (win_len / 2) / sample_rate.
C2_ShapeAndTime ==
    Returned =>
        LET M == activations[1]
            F == Len(H[1])
            time == Column(M, 0).x
        IN  /\ Shape(M) = <<F, Len(stems) + 1>>
            /\ Len(time) = F
            /\ \A f \in 1..F :
                   2 * 44100 * time[f][1] = (f - 1) * win_len * time[f][2]
            /\ \A f \in 1..(F - 1) :
                   time[f][1] * time[f + 1][2] < time[f + 1][1] * time[f][2]

\* the raw cross-stem sums E0 of the envelopes, one per frame
RawSums == [f \in DOMAIN H[1] |-> SumSeq([s \in DOMAIN H |-> H[s][f]])]
\* E0 < 0.01 for a sum given in units of 1 / (win_len * 10^5)
Below001(e) == 100 * e < win_len * 100000

RECURSIVE GCD(_, _)
GCD(a, b) == IF b = 0 THEN a ELSE GCD(b, a % b)

\* a quotient of non-negative integers in lowest terms
Lowest(q) ==
    LET g == GCD(q[1], q[2])
    IN  IF g = 0 THEN <<0, 0>> ELSE <<q[1] \div g, q[2] \div g>>

\* C3: after normalization a frame whose raw sum E0[f] is below 0.01 is 0 for
\* every stem; any other frame holds H[s,f] * numStems / max(E0), so that the
\* ratio of two stems at an ungated frame is the ratio of their envelopes.
C3_Normalization ==
    AfterGate =>
        LET sums == RawSums
            max == MaxSeq(sums)
        IN  /\ \A s \in DOMAIN Hn : \A f \in DOMAIN Hn[s] :
                   IF Below001(sums[f])
                      THEN Hn[s][f][1] = 0 /\ Hn[s][f][2] # 0
                      ELSE /\ Hn[s][f][2] # 0
                           /\ Lowest(Hn[s][f]) = Lowest(<<Len(stems) * H[s][f], max>>)
            /\ \A s, t \in DOMAIN Hn : \A f \in DOMAIN Hn[s] :
                   ~Below001(sums[f]) =>
                       /\ Hn[s][f][2] = Hn[t][f][2]
                       /\ Lowest(<<Hn[s][f][1], Hn[t][f][1]>>)
                              = Lowest(<<H[s][f], H[t][f]>>)

C3_Witness ==
    /\ pc = "filter"
    /\ Len(stems) = 2
    /\ LET sums == RawSums
           max == MaxSeq(sums)
       IN  /\ \E f \in DOMAIN sums : sums[f] > 0 /\ Below001(sums[f])
           /\ \E f \in DOMAIN sums :
                  /\ ~Below001(sums[f])
                  /\ H[1][f] # H[2][f]
                  /\ H[1][f] > 0
                  /\ H[2][f] > 0
                  /\ sums[f] < max

\* C4: when E0 is 0 at every frame the call fails: the division of line 33
\* is never performed and no matrix is returned.
C4_DegenerateInputRaised ==
    (E0 # <<>> /\ \A f \in DOMAIN E0 : E0[f] = 0) => (Hn = <<>> /\ ~Returned)

\* the number of frames the audio of stem id is cut into: the audio after
\* win_len - hop leading zeros, filled up to a multiple of win_len, holds one
\* frame of win_len and one more for every further hop
FramesOf(id) ==
    LET hop == win_len \div 2
        n == Len(audio[id]) + (win_len - hop)
        size == CHOOSE m \in n..(n + win_len - 1) : m % win_len = 0
    IN  1 + (size - win_len) \div hop

\* C5: stems whose envelopes differ in frame count end the call with
\* FrameCountMismatch: the envelopes are left as extracted (none truncated,
\* none padded) and no matrix is returned.
C5_FrameCountMismatch ==
    (/\ pc \in {"scale", "gate", "filter", "logistic", "time", "write",
                "returned", "error"}
     /\ Len(H) = Len(stems)
     /\ \E a, b \in Range(stems) : FramesOf(a) # FramesOf(b))
        => /\ pc = "error"
           /\ err = "FrameCountMismatch"
           /\ ~Returned
           /\ H = [k \in DOMAIN stems |-> EnvOf(stems[k])]

C5_Witness ==
    /\ pc = "error"
    /\ err = "FrameCountMismatch"
    /\ \E a, b \in DOMAIN H : Len(H[a]) # Len(H[b])

\* C6: an odd win_len is rejected: no envelope is ever produced with it.
C6_OddWinLenRejected == (win_len % 2 = 1) => H = <<>>

Ended == pc \in {"returned", "error"}
MainEnded == Ended /\ caller = "main"

\* C7 as stated: an invocation that found the artifact ran nothing, wrote
\* nothing and returned True; one that did not find it wrote the artifact
\* if and only if the write flag was set.
C7_WritesIffFlag ==
    MainEnded =>
        IF existed
           THEN ret = "True" /\ H = <<>> /\ ~Returned /\ fs.exists
           ELSE fs.exists <=> write_output

\* C7, amended: an existing artifact is never changed; an invocation that
\* finds it goes straight to returning True with no pipeline step; one that
\* does not find it starts the pipeline, and when it ends the artifact
\* exists if and only if the write flag was set and the pipeline returned a
\* matrix (an exception in the pipeline leaves nothing written).
C7_SkipOrRunAndWrite ==
    [][/\ fs.exists => fs' = fs
       /\ (pc = "idle" /\ caller' = "main" /\ fs.exists) =>
              (pc' = "returned" /\ ret' = "True" /\ existed' /\ locals' = locals
                  /\ activations' = activations)
       /\ (pc = "idle" /\ caller' = "main" /\ ~fs.exists) =>
              (pc' = "extract" /\ ~existed')
       /\ (~Ended /\ MainEnded' /\ ~existed') =>
              (fs'.exists <=> (write_output' /\ pc' = "returned"))
       /\ (pc = "write" /\ write_output) =>
              fs'.data = <<[fmt |-> "%.4f", m |-> activations[1]]>>]_vars

C7_Witness ==
    /\ pc = "returned"
    /\ caller = "main"
    /\ existed
    /\ ret = "True"
    /\ fs.data # <<>>

InScenarioA ==
    /\ win_len = 8
    /\ Len(stems) = 1
    /\ audio[stems[1]] = [k \in 1..16 |-> IF k <= 8 THEN 0 ELSE 10000]
    /\ Len(H) = 1

\* C8 as stated: scenario A (win_len 8, hop 4, one stem, 8 zeros then 8
\* ones) yields exactly 2 frames.
C8_ScenarioATwoFrames == InScenarioA => Len(H[1]) = 2

\* C8, amended: scenario A yields exactly 5 frames (4 + 16 samples padded to
\* 24, framed with length 8 and stride 4), a silent first frame among them.
C8_ScenarioAFiveFrames == InScenarioA => (Len(H[1]) = 5 /\ H[1][1] = 0 /\ H[1][5] > 0)

C8_Witness == InScenarioA /\ pc = "stack"

\* C9: the smoothing step fails with InsufficientLength, and no matrix is
\* returned, exactly when the frame count is 9 or less.
C9_SmoothingLength ==
    [][pc = "filter" =>
          IF Len(H[1]) <= 9
             THEN pc' = "error" /\ err' = "InsufficientLength" /\ ~Returned'
             ELSE pc' = "logistic" /\ err' = None]_vars

C9_Witness ==
    /\ pc = "error"
    /\ err = "InsufficientLength"
    /\ Len(H[1]) = 9

\* the confidence curves of the stems of the track, by stem index: each
\* stem's envelope, normalized against all stems, gated, filtered and mapped
Curves ==
    LET ids == Range(stems)
        env == [id \in ids |-> EnvOf(id)]
        F == Len(env[stems[1]])
        sum == [f \in 1..F |-> SumSeq([k \in DOMAIN stems |-> env[stems[k]][f]])]
        max == MaxSeq(sum)
        row(id) == [f \in 1..F |->
                       IF Below001(sum[f]) THEN <<0, 1>>
                       ELSE <<Cardinality(ids) * env[id][f], max>>]
        smooth(id) == [op |-> <<"filtfilt", 2, <<75, 1000>>>>, x |-> row(id), n |-> F]
        conf(id) == [op |-> <<"logistic", <<15, 100>>>>, x |-> smooth(id), n |-> F]
    IN  [id \in ids |->
            IF binarize THEN [op |-> <<"binarize">>, x |-> conf(id), n |-> F]
            ELSE conf(id)]

LabelOf(id) == IF id = 2 THEN "S02" ELSE IF id = 10 THEN "S10" ELSE "?"

RECURSIVE Labels(_)
Labels(il) == IF il = <<>> THEN "" ELSE "," \o LabelOf(Head(il)) \o Labels(Tail(il))

\* C10: column k + 1 of the returned matrix is the confidence curve of the
\* stem index_list[k], and the header written labels it "S%02d" of that same
\* index, after a leading "time".
C10_ColumnsAligned ==
    Returned =>
        LET M == activations[1]
            il == activations[2]
            curves == Curves
        IN  /\ Len(il) = Len(stems)
            /\ \A k \in DOMAIN il : Column(M, k) = curves[il[k]]
            /\ (pc = "returned" /\ write_output) =>
                   /\ fs.header = "time" \o Labels(il)
                   /\ fs.data[1].m = M

C10_Witness ==
    /\ pc = "returned"
    /\ Returned
    /\ activations[2] = <<10, 2>>
    /\ fs.header = "time,S10,S02"
    /\ audio[2] # audio[10]
====
